---- MODULE Spec2Model ----
(***************************************************************************)
(* generate_html.py: the report parser (collect_results), the table        *)
(* renderer (create_table) and the entry point (__main__ / main).          *)
(*                                                                         *)
(* Three specifications share this module:                                 *)
(*   SpecTable   - one call of create_table on a list of rows              *)
(*   SpecCollect - one call of collect_results on a report file            *)
(*   SpecMain    - one run of the script, from the argument check to the   *)
(*                 written HTML file                                       *)
(* A row of create_table is a sequence of tokens (strings).  A line of the *)
(* report file is a sequence of characters, so that str.split and the      *)
(* test on the first character are computed, not assumed.                  *)
(***************************************************************************)
EXTENDS Integers, Sequences, FiniteSets, TLC

VARIABLES
    \* create_table: its argument, the loop position, its locals, its
    \* return value and the position in the function
    test_list, idx, stat1, stat2, stat1_table, stat2_table, test_table,
    html_tables, pc,
    \* collect_results: the lines of the opened file, the line counter, the
    \* list being built (its local test_list) and the position in the function
    ftext, i, parsed, cpc,
    \* the script: len(sys.argv), sys.argv[3], the files it finds, the
    \* position in __main__ / main, the calls main has made, main's local
    \* html_report, what was printed and written, the exit status
    argc, report_name, files, mpc, called, html_report, usage_printed,
    written, exit_status

tvars == <<test_list, idx, stat1, stat2, stat1_table, stat2_table, test_table,
           html_tables, pc>>

cvars == <<ftext, i, parsed, cpc>>

mvars == <<argc, report_name, files, mpc, called, html_report, usage_printed,
           written, exit_status>>

vars == <<tvars, cvars, mvars>>

-----------------------------------------------------------------------------
(* Bounds *)

\* longest generated row list handed to create_table
MaxRows == 4

-----------------------------------------------------------------------------
(* Module constants of generate_html.py *)

TABLE_HEADER ==
    <<"Test ID", "Result ID", "Result Dir or Test Name", "Cycles", "Status",
      "Bucket", "Seed">>

TABLE_STAT1 == <<"Bucket", "Count", "Bucket Name">>

TABLE_STAT2 == <<"PASS", "FAIL", "No Status", "Total", "% Passing">>

-----------------------------------------------------------------------------
(* String helpers *)

\* sep.join(items)
RECURSIVE Join(_, _)
Join(sep, items) ==
    IF Len(items) = 0 THEN ""
    ELSE IF Len(items) = 1 THEN items[1]
    ELSE items[1] \o sep \o Join(sep, Tail(items))

\* "".join(items)
RECURSIVE Concat(_)
Concat(items) ==
    IF Len(items) = 0 THEN "" ELSE items[1] \o Concat(Tail(items))

\* str.lower on the tokens the rows are built from
Lower(t) ==
    CASE t = "PASS"     -> "pass"
      [] t = "Pass"     -> "pass"
      [] t = "FAIL"     -> "fail"
      [] t = "Bucket"   -> "bucket"
      [] t = "BUCKET"   -> "bucket"
      [] t = "No"       -> "no"
      [] t = "Status"   -> "status"
      [] t = "myBucket" -> "mybucket"
      [] t = "groupA"   -> "groupa"
      [] OTHER          -> t

\* <thead ...><tr><th>h1</th><th>h2</th>...</th></tr></thead>\n
Thead(style, table_header) ==
    "<thead" \o style \o "><tr><th>" \o Join("</th><th>", table_header)
        \o "</th></tr></thead>\n"

StatStyle == " style=\"background-color:CornflowerBlue; font-size:1em\""

TdCenter(item) == "<td class='center'>" \o item \o "</td>"

TdLeft(item) == "<td class='left'>" \o item \o "</td>"

TdPass ==
    "<td style=\"background-color:ForestGreen; color:White; text-align:center;\">PASS</td>"

TdFail ==
    "<td style=\"background-color:Red; color:White; text-align:center;\">Fail</td>"

-----------------------------------------------------------------------------
(* create_table: row classification and the cells of each kind of row *)

\* test[0].lower() == "bucket"
IsBucketRow(test) == Lower(test[1]) = "bucket"

\* mutant: the comparison without lower()
IsPassRow_CaseSensitive(test) == test[1] = "pass"

\* test[0].lower() == "pass"
IsPassRow(test) == Lower(test[1]) = "pass"

\* test[len(TABLE_STAT1)-1:]
BucketNameTokens(test) == SubSeq(test, Len(TABLE_STAT1), Len(test))

\* the items appended for a row in bucket mode
Stat1Row(test) ==
    <<"<tr>", TdCenter(test[1]), TdCenter(test[2]),
      TdCenter(Join(" ", BucketNameTokens(test))), "</tr>\n">>

\* the items appended for the row in summary mode
Stat2Row(test) ==
    <<"<tr>">> \o [k \in 1..Len(test) |-> TdCenter(test[k])] \o <<"</tr>\n">>

\* mutant: no empty cell after the PASS cell
NormalCell_NoEmptyCell(item) ==
    IF Lower(item) = "pass" THEN <<TdPass>>
    ELSE IF Lower(item) = "fail" THEN <<TdFail>>
    ELSE <<TdLeft(item)>>

\* the cells of one token of a normal row
NormalCell(item) ==
    IF Lower(item) = "pass" THEN <<TdPass, "<td class='left'></td>">>
    ELSE IF Lower(item) = "fail" THEN <<TdFail>>
    ELSE <<TdLeft(item)>>

RECURSIVE NormalCells(_)
NormalCells(test) ==
    IF Len(test) = 0 THEN <<>>
    ELSE NormalCell(test[1]) \o NormalCells(Tail(test))

\* the items appended for a row in normal mode
NormalRow(test) == <<"<tr>">> \o NormalCells(test) \o <<"</tr>\n">>

-----------------------------------------------------------------------------
(* The parts of the module that are not running in a specification *)

\* collect_results is not running
CollectIdle ==
    /\ ftext = <<>>
    /\ i = 0
    /\ parsed = <<>>
    /\ cpc = "idle"

\* the script is not running
MainIdle ==
    /\ argc = 1
    /\ report_name = <<>>
    /\ files = <<>>
    /\ mpc = "idle"
    /\ called = <<>>
    /\ html_report = <<>>
    /\ usage_printed = FALSE
    /\ written = {}
    /\ exit_status = 0

-----------------------------------------------------------------------------
(* Inputs of create_table *)

\* the row list of the mode-switch scenario
ScenarioRows ==
    << <<"bucket", "1", "2", "groupA">>,
       <<"b1", "3", "myBucket">>,
       <<"pass">>,
       <<"10", "2", "0", "12", "83%">>,
       <<"t1", "r1", "name", "5", "PASS", "b1", "42">> >>

RowKinds ==
    { <<"bucket", "1", "2", "groupA">>,
      <<"Bucket", "Count", "Bucket", "Name">>,
      <<"b1", "3", "myBucket">>,
      <<"b2", "4", "my", "Bucket">>,
      <<"pass">>,
      <<"PASS", "FAIL", "No", "Status">>,
      <<"10", "2", "0", "12", "83%">>,
      <<"t1", "r1", "name", "5", "PASS", "b1", "42">>,
      <<"t2", "r2", "other", "3", "FAIL", "b2", "7">>,
      <<"x">>,
      <<>> }

RowLists ==
    UNION { [1..n -> RowKinds] : n \in 0..MaxRows } \cup { ScenarioRows }

-----------------------------------------------------------------------------
(* create_table as a state machine: pc is the position in the function *)

\* create_table is not running
TableIdle ==
    /\ test_list = <<>>
    /\ idx = 1
    /\ stat1 = FALSE
    /\ stat2 = FALSE
    /\ stat1_table = <<>>
    /\ stat2_table = <<>>
    /\ test_table = <<>>
    /\ html_tables = "none"
    /\ pc = "idle"

InitTable ==
    /\ CollectIdle
    /\ MainIdle
    /\ test_list \in RowLists
    /\ idx = 1
    /\ stat1 = FALSE
    /\ stat2 = FALSE
    /\ stat1_table = <<>>
    /\ stat2_table = <<>>
    /\ test_table = <<>>
    /\ html_tables = "none"
    /\ pc = "call"

\* lines 109-132: the three lists with <table> and their header, both flags off
TableBegin ==
    /\ pc = "call"
    /\ test_table' = <<"<table>", Thead("", TABLE_HEADER)>>
    /\ stat1_table' = <<"<table>", Thead(StatStyle, TABLE_STAT1)>>
    /\ stat2_table' = <<"<table>", Thead(StatStyle, TABLE_STAT2)>>
    /\ stat1' = FALSE
    /\ stat2' = FALSE
    /\ pc' = "loop"
    /\ UNCHANGED <<cvars, mvars>>
    /\ UNCHANGED <<test_list, idx, html_tables>>

\* the loop has a current row whose first token can be read
AtRow ==
    /\ pc = "loop"
    /\ idx <= Len(test_list)
    /\ Len(test_list[idx]) > 0

\* mutant: the bucket-leading row does not switch the mode on
RowBucket_NoModeSwitch ==
    /\ AtRow
    /\ IsBucketRow(test_list[idx])
    /\ idx' = idx + 1
    /\ UNCHANGED <<cvars, mvars>>
    /\ UNCHANGED <<test_list, stat1, stat2, stat1_table, stat2_table,
                   test_table, html_tables, pc>>

\* line 134-135
RowBucket ==
    /\ AtRow
    /\ IsBucketRow(test_list[idx])
    /\ stat1' = TRUE
    /\ idx' = idx + 1
    /\ UNCHANGED <<cvars, mvars>>
    /\ UNCHANGED <<test_list, stat2, stat1_table, stat2_table, test_table,
                   html_tables, pc>>

\* mutant: the pass-leading row leaves the bucket mode on
RowPass_KeepsBucketMode ==
    /\ AtRow
    /\ ~IsBucketRow(test_list[idx])
    /\ IsPassRow(test_list[idx])
    /\ stat2' = TRUE
    /\ idx' = idx + 1
    /\ UNCHANGED <<cvars, mvars>>
    /\ UNCHANGED <<test_list, stat1, stat1_table, stat2_table, test_table,
                   html_tables, pc>>

\* line 136-138
RowPass ==
    /\ AtRow
    /\ ~IsBucketRow(test_list[idx])
    /\ IsPassRow(test_list[idx])
    /\ stat2' = TRUE
    /\ stat1' = FALSE
    /\ idx' = idx + 1
    /\ UNCHANGED <<cvars, mvars>>
    /\ UNCHANGED <<test_list, stat1_table, stat2_table, test_table,
                   html_tables, pc>>

\* line 139
OtherRow ==
    /\ AtRow
    /\ ~IsBucketRow(test_list[idx])
    /\ ~IsPassRow(test_list[idx])

\* line 140-146 (test[1] exists)
RowStat1 ==
    /\ OtherRow
    /\ stat1
    /\ Len(test_list[idx]) >= 2
    /\ stat1_table' = stat1_table \o Stat1Row(test_list[idx])
    /\ idx' = idx + 1
    /\ UNCHANGED <<cvars, mvars>>
    /\ UNCHANGED <<test_list, stat1, stat2, stat2_table, test_table,
                   html_tables, pc>>

\* mutant: the summary mode is not cleared after the summary row
RowStat2_KeepsSummaryMode ==
    /\ AtRow
    /\ ~IsBucketRow(test_list[idx])
    /\ ~IsPassRow(test_list[idx])
    /\ ~stat1
    /\ stat2
    /\ stat2_table' = stat2_table \o Stat2Row(test_list[idx])
    /\ idx' = idx + 1
    /\ UNCHANGED <<cvars, mvars>>
    /\ UNCHANGED <<test_list, stat1, stat2, stat1_table, test_table,
                   html_tables, pc>>

\* line 147-152
RowStat2 ==
    /\ OtherRow
    /\ ~stat1
    /\ stat2
    /\ stat2_table' = stat2_table \o Stat2Row(test_list[idx])
    /\ stat2' = FALSE
    /\ idx' = idx + 1
    /\ UNCHANGED <<cvars, mvars>>
    /\ UNCHANGED <<test_list, stat1, stat1_table, test_table, html_tables, pc>>

\* line 153-163
RowNormal ==
    /\ OtherRow
    /\ ~stat1
    /\ ~stat2
    /\ test_table' = test_table \o NormalRow(test_list[idx])
    /\ idx' = idx + 1
    /\ UNCHANGED <<cvars, mvars>>
    /\ UNCHANGED <<test_list, stat1, stat2, stat1_table, stat2_table,
                   html_tables, pc>>

\* IndexError: test[0] of a row without tokens (line 134), or test[1] of a
\* one-token row in bucket mode (line 144).  The exception leaves the
\* function: its lists are dropped and nothing is returned.
RowRaise ==
    /\ pc = "loop"
    /\ idx <= Len(test_list)
    /\ \/ Len(test_list[idx]) = 0
       \/ /\ OtherRow
          /\ stat1
          /\ Len(test_list[idx]) < 2
    /\ pc' = "raised"
    /\ UNCHANGED <<cvars, mvars>>
    /\ UNCHANGED <<test_list, idx, stat1, stat2, stat1_table, stat2_table,
                   test_table, html_tables>>

\* the items that close a table (lines 165-169)
TableClose == <<"</tbody>\n", "<tfoot></tfoot>\n", "</table>\n">>

\* lines 165-187: close the three tables, concatenate them, return
TableEnd ==
    /\ pc = "loop"
    /\ idx > Len(test_list)
    /\ test_table' = test_table \o TableClose
    /\ stat1_table' = stat1_table \o TableClose \o <<"<p> </p>\n">>
    /\ stat2_table' = stat2_table \o TableClose \o <<"<p> </p>\n">>
    /\ html_tables' = Concat(stat1_table' \o stat2_table' \o test_table')
    /\ pc' = "done"
    /\ UNCHANGED <<cvars, mvars>>
    /\ UNCHANGED <<test_list, idx, stat1, stat2>>

NextTable ==
    \/ TableBegin
    \/ RowBucket
    \/ RowPass
    \/ RowStat1
    \/ RowStat2
    \/ RowNormal
    \/ RowRaise
    \/ TableEnd

SpecTable == InitTable /\ [][NextTable]_vars

-----------------------------------------------------------------------------
(* Properties of create_table *)

\* the loop body ran to its end for the row at idx
RowDone == pc = "loop" /\ idx' = idx + 1

\* the spellings of the two control words in the generated rows
PassWords == {"pass", "Pass", "PASS"}

BucketWords == {"bucket", "Bucket", "BUCKET"}

\* the first token of the row is "pass", in any case
PassLeading(test) == test[1] \in PassWords

\* the first token of the row is "bucket", in any case
BucketLeading(test) == test[1] \in BucketWords

\* the first token of the row is "bucket" or "pass", in any case
IsControlRow(test) == BucketLeading(test) \/ PassLeading(test)

\* row is <tr>, cells, </tr>\n
IsOneRow(row) ==
    /\ Len(row) >= 2
    /\ row[1] = "<tr>"
    /\ row[Len(row)] = "</tr>\n"
    /\ \A k \in 2..(Len(row) - 1) : row[k] \notin {"<tr>", "</tr>\n"}

\* new is old with exactly one table row appended at its end
OneRowAppended(old, new) ==
    /\ Len(new) > Len(old)
    /\ SubSeq(new, 1, Len(old)) = old
    /\ IsOneRow(SubSeq(new, Len(old) + 1, Len(new)))

TrCount(table) == Cardinality({k \in DOMAIN table : table[k] = "<tr>"})

\* the cells of the only row of a table
OnlyRowCells(table) ==
    LET a == CHOOSE k \in DOMAIN table : table[k] = "<tr>"
        b == CHOOSE k \in DOMAIN table : table[k] = "</tr>\n"
    IN  SubSeq(table, a + 1, b - 1)

\* a bucket-leading row was processed before row k, and no pass-leading row
\* since
BucketBlockOpenAt(k) ==
    \E b \in 1..(k - 1) :
        /\ BucketLeading(test_list[b])
        /\ \A j \in (b + 1)..(k - 1) : ~PassLeading(test_list[j])

\* C1 as stated: the row right after a pass-leading row is always the
\* SummaryStat row (emitted into the summary table only) and the mode is
\* normal afterwards (both flags off).
C1_NextRowAlwaysSummary ==
    [][ (RowDone /\ idx >= 2 /\ PassLeading(test_list[idx - 1]))
        => /\ stat2_table' = stat2_table \o Stat2Row(test_list[idx])
           /\ stat1_table' = stat1_table
           /\ test_table' = test_table
           /\ ~stat1' /\ ~stat2' ]_vars

\* C1 amended: when the row right after a pass-leading row is not itself a
\* control row, exactly that row is emitted into the summary table (and
\* into no other table) and both flags are off afterwards; the row after it,
\* when it is not a control row either, is emitted as a normal test row.
C1_SummaryRowThenNormal ==
    [][ /\ (RowDone /\ idx >= 2 /\ PassLeading(test_list[idx - 1])
              /\ ~IsControlRow(test_list[idx]))
           => /\ stat2_table' = stat2_table \o Stat2Row(test_list[idx])
              /\ stat1_table' = stat1_table
              /\ test_table' = test_table
              /\ ~stat1' /\ ~stat2'
        /\ (RowDone /\ idx >= 3 /\ PassLeading(test_list[idx - 2])
              /\ ~IsControlRow(test_list[idx - 1])
              /\ ~IsControlRow(test_list[idx]))
           => /\ test_table' = test_table \o NormalRow(test_list[idx])
              /\ stat1_table' = stat1_table
              /\ stat2_table' = stat2_table ]_vars

\* pass-leading row, summary row, normal row: all three processed
C1_Witness ==
    /\ pc = "loop"
    /\ idx >= 4
    /\ PassLeading(test_list[idx - 3])
    /\ ~IsControlRow(test_list[idx - 2])
    /\ ~IsControlRow(test_list[idx - 1])
    /\ TrCount(stat2_table) = 1
    /\ TrCount(test_table) >= 1

\* C2 as stated: after a bucket-leading row every row up to the next
\* pass-leading row is emitted into the bucket table and into no other.
C2_AllRowsAfterBucket ==
    [][ (RowDone /\ BucketBlockOpenAt(idx) /\ ~PassLeading(test_list[idx]))
        => /\ OneRowAppended(stat1_table, stat1_table')
           /\ stat2_table' = stat2_table
           /\ test_table' = test_table ]_vars

\* C2 amended: after a bucket-leading row every row up to the next
\* pass-leading row that is not itself bucket-leading is emitted as a
\* BucketStat row into the bucket table and into no other table; a further
\* bucket-leading row emits nothing and keeps the bucket mode.
C2_DataRowsAfterBucket ==
    [][ /\ (RowDone /\ BucketBlockOpenAt(idx)
              /\ ~IsControlRow(test_list[idx]))
           => /\ stat1_table' = stat1_table \o
                    <<"<tr>", TdCenter(test_list[idx][1]),
                      TdCenter(test_list[idx][2]),
                      TdCenter(Join(" ", SubSeq(test_list[idx], 3,
                                                Len(test_list[idx])))),
                      "</tr>\n">>
              /\ stat2_table' = stat2_table
              /\ test_table' = test_table
        /\ (RowDone /\ BucketBlockOpenAt(idx) /\ BucketLeading(test_list[idx]))
           => /\ stat1'
              /\ UNCHANGED <<stat1_table, stat2_table, test_table>> ]_vars

\* bucket-leading row, another bucket-leading row, then two data rows in the
\* bucket table
C2_Witness ==
    /\ pc = "loop"
    /\ idx >= 5
    /\ BucketLeading(test_list[1])
    /\ BucketLeading(test_list[2])
    /\ TrCount(stat1_table) = 2
    /\ TrCount(stat2_table) = 0
    /\ TrCount(test_table) = 0

\* C4 as stated: one BucketStat row (b1, 3, myBucket), one SummaryStat row of
\* 5 cells, one normal row made of the green PASS cell, an empty cell and
\* five further plain cells.
C4_FivePlainCells ==
    (pc = "done" /\ test_list = ScenarioRows)
    => /\ TrCount(stat1_table) = 1
       /\ OnlyRowCells(stat1_table) =
              <<TdCenter("b1"), TdCenter("3"), TdCenter("myBucket")>>
       /\ TrCount(stat2_table) = 1
       /\ Len(OnlyRowCells(stat2_table)) = 5
       /\ TrCount(test_table) = 1
       /\ LET cells == OnlyRowCells(test_table)
          IN  /\ \E g \in 1..(Len(cells) - 1) :
                    /\ cells[g] = TdPass
                    /\ cells[g + 1] = "<td class='left'></td>"
              /\ Len(cells) = 2 + 5

\* C4 amended: one BucketStat row (b1, 3, myBucket), one SummaryStat row of
\* 5 plain cells, one normal row of eight cells: four plain cells, the green
\* PASS cell, an empty cell, two plain cells (six plain cells in all).
C4_SixPlainCells ==
    (pc = "done" /\ test_list = ScenarioRows)
    => /\ TrCount(stat1_table) = 1
       /\ OnlyRowCells(stat1_table) =
              <<"<td class='center'>b1</td>", "<td class='center'>3</td>",
                "<td class='center'>myBucket</td>">>
       /\ TrCount(stat2_table) = 1
       /\ OnlyRowCells(stat2_table) =
              <<"<td class='center'>10</td>", "<td class='center'>2</td>",
                "<td class='center'>0</td>", "<td class='center'>12</td>",
                "<td class='center'>83%</td>">>
       /\ TrCount(test_table) = 1
       /\ OnlyRowCells(test_table) =
              <<"<td class='left'>t1</td>", "<td class='left'>r1</td>",
                "<td class='left'>name</td>", "<td class='left'>5</td>",
                TdPass, "<td class='left'></td>",
                "<td class='left'>b1</td>", "<td class='left'>42</td>">>

C4_Witness == pc = "done" /\ test_list = ScenarioRows

\* a <tbody> opening item
TbodyOpen == {"<tbody>", "<tbody>\n"}

\* table is <table>, the thead of names, an opened body holding every row,
\* its closing tag, a tfoot and </table>
WellWrapped(table, names) ==
    /\ Len(table) >= 2
    /\ table[1] = "<table>"
    /\ table[2] \in {Thead("", names), Thead(StatStyle, names)}
    /\ \E o, c, f, e \in DOMAIN table :
          /\ 2 < o /\ o < c /\ c < f /\ f < e
          /\ table[o] \in TbodyOpen
          /\ table[c] = "</tbody>\n"
          /\ table[f] = "<tfoot></tfoot>\n"
          /\ table[e] = "</table>\n"
          /\ \A k \in DOMAIN table :
                table[k] \in {"<tr>", "</tr>\n"} => (o < k /\ k < c)

\* C7: each of the three returned tables carries its fixed header and is
\* wrapped in table/head/body/foot markup, every closing tag matched by an
\* earlier opening tag.
C7_TablesWellWrapped ==
    pc = "done"
    => /\ WellWrapped(stat1_table, TABLE_STAT1)
       /\ WellWrapped(stat2_table, TABLE_STAT2)
       /\ WellWrapped(test_table, TABLE_HEADER)

\* C9 as stated: the two mode flags are never both true.
C9_NeverBothFlags == ~(stat1 /\ stat2)

\* C9 amended: both flags are true exactly when a bucket-leading row was
\* processed directly after a pass-leading row and no pass-leading row has
\* been processed since.
C9_BothFlagsIffBucketAfterPass ==
    (stat1 /\ stat2)
    <=> \E j \in 2..(idx - 1) :
            /\ PassLeading(test_list[j - 1])
            /\ BucketLeading(test_list[j])
            /\ \A k \in (j + 1)..(idx - 1) : ~PassLeading(test_list[k])

\* both flags on, and a data row was rendered as a BucketStat row meanwhile
C9_Witness ==
    /\ pc = "loop"
    /\ stat1 /\ stat2
    /\ TrCount(stat1_table) >= 1

\* C10: a control row (first token "bucket" or "pass") emits no table row;
\* every other row appends exactly one table row to exactly one of the
\* three tables, the other two unchanged; in the returned tables there are
\* as many table rows as rows that are not control rows.
C10_OneTableRowPerDataRow ==
    /\ [](pc = "done"
            => TrCount(stat1_table) + TrCount(stat2_table) + TrCount(test_table)
               = Cardinality({k \in DOMAIN test_list :
                                 ~IsControlRow(test_list[k])}))
    /\ [][ RowDone
           => IF IsControlRow(test_list[idx])
              THEN UNCHANGED <<stat1_table, stat2_table, test_table>>
              ELSE \/ /\ OneRowAppended(stat1_table, stat1_table')
                      /\ UNCHANGED <<stat2_table, test_table>>
                   \/ /\ OneRowAppended(stat2_table, stat2_table')
                      /\ UNCHANGED <<stat1_table, test_table>>
                   \/ /\ OneRowAppended(test_table, test_table')
                      /\ UNCHANGED <<stat1_table, stat2_table>> ]_vars

\* a returned call that saw a control row in upper case and put rows into
\* two different tables
C10_Witness ==
    /\ pc = "done"
    /\ \E k \in DOMAIN test_list : test_list[k][1] = "PASS"
    /\ TrCount(stat2_table) = 1
    /\ TrCount(test_table) >= 1

-----------------------------------------------------------------------------
(* collect_results: a line is a sequence of characters *)

\* longest generated report file, in lines
MaxLines == 4

\* the characters str.split() splits on
Whitespace == {" ", "\t", "\n"}

\* str.split(): the maximal runs of characters that are not whitespace;
\* k is the position read, cur the token being built
RECURSIVE SplitFrom(_, _, _)
SplitFrom(line, k, cur) ==
    IF k > Len(line)
    THEN IF cur = <<>> THEN <<>> ELSE <<cur>>
    ELSE IF line[k] \in Whitespace
         THEN IF cur = <<>>
              THEN SplitFrom(line, k + 1, <<>>)
              ELSE <<cur>> \o SplitFrom(line, k + 1, <<>>)
         ELSE SplitFrom(line, k + 1, Append(cur, line[k]))

Split(line) == SplitFrom(line, 1, <<>>)

\* line.replace(ch, rep) for a one-character ch
RECURSIVE Replace(_, _, _)
Replace(line, ch, rep) ==
    IF Len(line) = 0 THEN <<>>
    ELSE (IF line[1] = ch THEN rep ELSE <<line[1]>>)
             \o Replace(Tail(line), ch, rep)

\* lines 69-70
Escape(line) ==
    Replace(Replace(line, "<", <<"&", "l", "t">>), ">", <<"&", "g", "t">>)

\* mutant: only the first line is skipped unconditionally
SkipLine_OneHeaderLine(n, line) ==
    IF n <= 1 THEN TRUE
    ELSE IF Len(Split(line)) < 4 THEN TRUE
    ELSE Split(line)[1][1] = "-"

\* the condition of line 67, n being the counter after "i += 1"
SkipLine(n, line) ==
    IF n <= 2 THEN TRUE
    ELSE IF Len(Split(line)) < 4 THEN TRUE
    ELSE Split(line)[1][1] = "-"

ReportLines ==
    { <<"a", " ", "b", " ", "c", " ", "d", "\n">>,
      <<"-", "a", " ", "b", " ", "c", " ", "d", "\n">>,
      <<"a", " ", "b", " ", "c", "\n">>,
      <<"\n">>,
      <<" ", "a", " ", "-", "b", " ", "c", " ", "d", "\n">>,
      <<"<", "a", ">", " ", "b", " ", "c", " ", "d", "\n">>,
      <<"-", "-", "-", "-", "\n">>,
      <<"a", "\t", "b", " ", " ", "c", " ", "d", " ", "e", "\n">> }

ReportFiles == UNION { [1..n -> ReportLines] : n \in 0..MaxLines }

\* lines 61-63: the file is open, nothing read yet
InitCollect ==
    /\ TableIdle
    /\ MainIdle
    /\ ftext \in ReportFiles
    /\ i = 0
    /\ parsed = <<>>
    /\ cpc = "loop"

\* lines 64-68: the next line is read, counted and skipped
CollectSkip ==
    /\ cpc = "loop"
    /\ i < Len(ftext)
    /\ SkipLine(i + 1, ftext[i + 1])
    /\ i' = i + 1
    /\ UNCHANGED <<ftext, parsed, cpc>>
    /\ UNCHANGED <<tvars, mvars>>

\* lines 64-71: the next line is read, counted, escaped, split and appended
CollectKeep ==
    /\ cpc = "loop"
    /\ i < Len(ftext)
    /\ ~SkipLine(i + 1, ftext[i + 1])
    /\ i' = i + 1
    /\ parsed' = Append(parsed, Split(Escape(ftext[i + 1])))
    /\ UNCHANGED <<ftext, cpc>>
    /\ UNCHANGED <<tvars, mvars>>

\* lines 73-76: end of file, close, print the total, return
CollectReturn ==
    /\ cpc = "loop"
    /\ i = Len(ftext)
    /\ cpc' = "done"
    /\ UNCHANGED <<ftext, i, parsed>>
    /\ UNCHANGED <<tvars, mvars>>

NextCollect ==
    \/ CollectSkip
    \/ CollectKeep
    \/ CollectReturn

SpecCollect == InitCollect /\ [][NextCollect]_vars

-----------------------------------------------------------------------------
(* Properties of collect_results *)

\* the positions where a whitespace-separated token of the line starts
TokenStarts(line) ==
    {k \in DOMAIN line :
        /\ line[k] \notin Whitespace
        /\ (k = 1 \/ line[k - 1] \in Whitespace)}

\* the first character of the first token of a line that has a token
FirstTokenChar(line) ==
    line[CHOOSE k \in TokenStarts(line) : \A j \in TokenStarts(line) : k <= j]

\* line k of the file is after the first two, has at least 4 tokens and its
\* first token does not start with '-'
Retained(k) ==
    /\ k > 2
    /\ Cardinality(TokenStarts(ftext[k])) >= 4
    /\ FirstTokenChar(ftext[k]) # "-"

\* the retained lines among the first n, in file order, each as the token
\* list of its escaped text
RECURSIVE RetainedUpTo(_)
RetainedUpTo(n) ==
    IF n = 0 THEN <<>>
    ELSE RetainedUpTo(n - 1)
            \o (IF Retained(n) THEN <<Split(Escape(ftext[n]))>> ELSE <<>>)

\* C3: after any number of lines read, and in the returned list, the result
\* holds exactly the retained lines (after the first two, at least 4 tokens,
\* first token not starting with '-') in file order: as many entries as
\* retained lines, and no entry for any other line.
C3_ExactlyRetainedLines ==
    /\ parsed = RetainedUpTo(i)
    /\ Len(parsed) = Cardinality({k \in 1..i : Retained(k)})
    /\ cpc = "done" => i = Len(ftext)

\* a returned call on a four-line file: the first line would qualify but is
\* one of the first two, the third has 4 tokens and starts with '-', the
\* fourth is retained
C3_Witness ==
    /\ cpc = "done"
    /\ Len(ftext) = 4
    /\ Cardinality(TokenStarts(ftext[1])) >= 4
    /\ FirstTokenChar(ftext[1]) # "-"
    /\ Cardinality(TokenStarts(ftext[3])) >= 4
    /\ FirstTokenChar(ftext[3]) = "-"
    /\ Len(parsed) = 1
    /\ parsed[1] = Split(Escape(ftext[4]))

-----------------------------------------------------------------------------
(* The script: __main__ and main. A path is a sequence of characters. *)

\* largest len(sys.argv) generated
MaxArgc == 6

\* longest generated report path, in characters
MaxPathLen == 4

PathChars == {"r", ".", "/"}

Paths == UNION { [1..n -> PathChars] : n \in 0..MaxPathLen }

\* str.rfind(ch): the last position of ch, 0 when there is none
RFind(p, ch) ==
    IF \E k \in DOMAIN p : p[k] = ch
    THEN CHOOSE k \in DOMAIN p :
            p[k] = ch /\ \A j \in DOMAIN p : p[j] = ch => j <= k
    ELSE 0

\* the loop of os.path.splitext over the leading dots of the file name:
\* the position after the last separator moves right until it meets a
\* character that is not a dot (split at dotIndex) or reaches dotIndex (no
\* extension)
RECURSIVE SplitextScan(_, _, _)
SplitextScan(p, filenameIndex, dotIndex) ==
    IF filenameIndex < dotIndex
    THEN IF p[filenameIndex] # "."
         THEN SubSeq(p, 1, dotIndex - 1)
         ELSE SplitextScan(p, filenameIndex + 1, dotIndex)
    ELSE p

\* os.path.splitext(p)[0]
SplitextRoot(p) ==
    LET sepIndex == RFind(p, "/")
        dotIndex == RFind(p, ".")
    IN  IF dotIndex > sepIndex
        THEN SplitextScan(p, sepIndex + 1, dotIndex)
        ELSE p

\* mutant: ".html" appended to the whole report path
HtmlFile_KeepsExtension(name) == name \o <<".", "h", "t", "m", "l">>

\* lines 271-272: base + ".html"
HtmlFile(name) == SplitextRoot(name) \o <<".", "h", "t", "m", "l">>

\* open(name) can succeed: the path names something that can be a file
CanBeFile(p) ==
    /\ Len(p) > 0
    /\ p[Len(p)] # "/"
    /\ SubSeq(p, RFind(p, "/") + 1, Len(p)) \notin {<<".">>, <<".", ".">>}

\* the head file: missing, or its lines as token lists
HeadFiles ==
    { [exists |-> FALSE, lines |-> <<>>],
      [exists |-> TRUE, lines |-> <<>>],
      [exists |-> TRUE, lines |-> << <<"/path">> >>],
      [exists |-> TRUE, lines |-> << <<"/path">>, <<"c0ffee">> >>],
      [exists |-> TRUE, lines |-> << <<>>, <<"c0ffee">> >>],
      [exists |-> TRUE, lines |-> << <<"/path", "x">>, <<"c0ffee">>, <<"more">> >>] }

\* email_template.css: missing, or its text as literal parts and
\* placeholders ("$" is a dollar sign that starts no placeholder)
TemplateFiles ==
    { [exists |-> FALSE, parts |-> <<>>],
      [exists |-> TRUE, parts |-> <<"<html>", "</html>">>],
      [exists |-> TRUE, parts |-> <<"<html>", "$body", "</html>">>],
      [exists |-> TRUE, parts |-> <<"<html>", "$body", "$other">>],
      [exists |-> TRUE, parts |-> <<"<html>", "$", "$body">>] }

\* lines 95-100
CreateHead(head_info) ==
    Concat(<<"<p>\n",
             "<b>Regression test path: </b>" \o head_info[1][1] \o "<br>\n",
             "<b>Latest commit on test branch: </b>" \o head_info[2][1] \o "<br>\n",
             "</p>\n">>)

\* create_head can index head_info[0][0] and head_info[1][0]
HeadUsable(head_info) ==
    /\ Len(head_info) >= 2
    /\ Len(head_info[1]) >= 1
    /\ Len(head_info[2]) >= 1

\* string.Template.substitute(body=...) raises: ValueError on a dollar sign
\* that starts no placeholder, KeyError on a placeholder other than body
SubstituteRaises(parts) ==
    \E k \in DOMAIN parts : parts[k] \in {"$", "$other"}

\* string.Template.substitute(body=report): every $body replaced, all other
\* text kept
Substitute(parts, report) ==
    [k \in DOMAIN parts |-> IF parts[k] = "$body" THEN report ELSE parts[k]]

\* lines 198-218: title + head + tables; the timestamp and the tables of the
\* parsed rows stand as fixed text (create_table does not raise on rows of
\* collect_results, which have at least 4 tokens)
ReportBody(head_info) ==
    "<h1>UVM Regression Tests YYYYmmddTHHMM</h1>" \o CreateHead(head_info)
        \o "<table>...</table>"

\* mutant: the argument count compared with 4
ArgsMissing_OffByOne == argc < 4

\* line 278
ArgsMissing == argc < 5

\* exit(-1) as the process exit status
UsageExitStatus == (0 - 1) % 256

InitMain ==
    /\ TableIdle
    /\ CollectIdle
    /\ argc \in 1..MaxArgc
    /\ report_name \in Paths
    /\ files \in [report : BOOLEAN, head : HeadFiles, template : TemplateFiles,
                  to : BOOLEAN, cc : BOOLEAN]
    /\ files.report => CanBeFile(report_name)
    /\ mpc = "start"
    /\ called = <<>>
    /\ html_report = <<>>
    /\ usage_printed = FALSE
    /\ written = {}
    /\ exit_status = 0

\* lines 278-280
EntryUsage ==
    /\ mpc = "start"
    /\ ArgsMissing
    /\ usage_printed' = TRUE
    /\ exit_status' = UsageExitStatus
    /\ mpc' = "exited"
    /\ UNCHANGED <<argc, report_name, files, called, html_report, written>>
    /\ UNCHANGED <<tvars, cvars>>

\* lines 278, 282-287
EntryMain ==
    /\ mpc = "start"
    /\ ~ArgsMissing
    /\ mpc' = "collect_results"
    /\ UNCHANGED <<argc, report_name, files, called, html_report,
                   usage_printed, written, exit_status>>
    /\ UNCHANGED <<tvars, cvars>>

\* an exception leaves main: the interpreter ends with status 1
Abort ==
    /\ mpc' = "aborted"
    /\ exit_status' = 1
    /\ UNCHANGED <<argc, report_name, files, html_report, usage_printed,
                   written>>
    /\ UNCHANGED <<tvars, cvars>>

\* the call returned: main goes on to next_pc
Proceed(next_pc) ==
    /\ mpc' = next_pc
    /\ UNCHANGED <<argc, report_name, files, html_report, usage_printed,
                   written, exit_status>>
    /\ UNCHANGED <<tvars, cvars>>

\* line 267: collect_results(report_name) returns
CollectResultsOk ==
    /\ mpc = "collect_results"
    /\ files.report
    /\ called' = Append(called, "collect_results")
    /\ Proceed("collect_head")

\* line 267: open() in collect_results raises
CollectResultsFail ==
    /\ mpc = "collect_results"
    /\ ~files.report
    /\ called' = Append(called, "collect_results")
    /\ Abort

\* line 268: collect_head(head_name) returns
CollectHeadOk ==
    /\ mpc = "collect_head"
    /\ files.head.exists
    /\ called' = Append(called, "collect_head")
    /\ Proceed("create_message")

\* line 268: open() in collect_head raises
CollectHeadFail ==
    /\ mpc = "collect_head"
    /\ ~files.head.exists
    /\ called' = Append(called, "collect_head")
    /\ Abort

\* create_message returns: the head can be indexed, the template is there
\* and substitute does not raise
MessageOk ==
    /\ HeadUsable(files.head.lines)
    /\ files.template.exists
    /\ ~SubstituteRaises(files.template.parts)

\* line 269: create_message(test_list, head_info) returns
CreateMessageOk ==
    /\ mpc = "create_message"
    /\ MessageOk
    /\ called' = Append(called, "create_message")
    /\ html_report' =
          Substitute(files.template.parts, ReportBody(files.head.lines))
    /\ mpc' = "create_email"
    /\ UNCHANGED <<argc, report_name, files, usage_printed, written,
                   exit_status>>
    /\ UNCHANGED <<tvars, cvars>>

\* line 269: create_head, read_file or substitute raises
CreateMessageFail ==
    /\ mpc = "create_message"
    /\ ~MessageOk
    /\ called' = Append(called, "create_message")
    /\ Abort

\* mutant: the cc file is not opened
EmailFilesOk_ToOnly == files.to

\* both recipient files can be read
EmailFilesOk == files.to /\ files.cc

\* line 270: create_email(to_email, cc_email, html_report) returns
CreateEmailOk ==
    /\ mpc = "create_email"
    /\ EmailFilesOk
    /\ called' = Append(called, "create_email")
    /\ Proceed("write")

\* line 270: open(to_file) or open(cc_file) raises
CreateEmailFail ==
    /\ mpc = "create_email"
    /\ ~EmailFilesOk
    /\ called' = Append(called, "create_email")
    /\ Abort

\* lines 271-275: the HTML file is written, main returns
WriteHtml ==
    /\ mpc = "write"
    /\ called' = Append(called, "write")
    /\ written' = written \cup
          {[path |-> HtmlFile(report_name), content |-> html_report]}
    /\ mpc' = "done"
    /\ UNCHANGED <<argc, report_name, files, html_report, usage_printed,
                   exit_status>>
    /\ UNCHANGED <<tvars, cvars>>

NextMain ==
    \/ EntryUsage
    \/ EntryMain
    \/ CollectResultsOk
    \/ CollectResultsFail
    \/ CollectHeadOk
    \/ CollectHeadFail
    \/ CreateMessageOk
    \/ CreateMessageFail
    \/ CreateEmailOk
    \/ CreateEmailFail
    \/ WriteHtml

SpecMain == InitMain /\ [][NextMain]_vars

-----------------------------------------------------------------------------
(* Properties of the script *)

\* C5: with fewer than 4 arguments the script prints the usage message and
\* exits with a non-zero status, and no stage runs: no function of the
\* pipeline is called, no message is built, no file is written.  With 4 or
\* more arguments there is no usage message and no such exit, and the
\* pipeline starts with collect_results.
C5_UsageExitOrPipeline ==
    /\ (argc - 1 < 4 /\ mpc # "start")
       => /\ mpc = "exited"
          /\ usage_printed
          /\ exit_status # 0
          /\ called = <<>>
          /\ html_report = <<>>
          /\ written = {}
    /\ (argc - 1 >= 4 /\ mpc \notin {"idle", "start"})
       => /\ ~usage_printed
          /\ mpc # "exited"
          /\ (mpc = "collect_results" \/ called[1] = "collect_results")

\* three arguments, every input file in place: the run ended at the usage
\* message
C5_Witness ==
    /\ argc = 4
    /\ mpc = "exited"
    /\ files.report /\ files.head.exists /\ files.template.exists
    /\ files.to /\ files.cc

\* the positions of the dot that starts the extension of p: the last dot of
\* the last path component, when a character other than a dot precedes it
\* in that component
ExtensionDots(p) ==
    {d \in DOMAIN p :
        /\ p[d] = "."
        /\ \A k \in (d + 1)..Len(p) : p[k] \notin {".", "/"}
        /\ \E k \in 1..(d - 1) :
              /\ p[k] # "."
              /\ \A j \in k..d : p[j] # "/"}

\* the extension of p, empty when it has none
ExtensionOf(p) ==
    IF ExtensionDots(p) = {} THEN <<>>
    ELSE SubSeq(p, CHOOSE d \in ExtensionDots(p) : TRUE, Len(p))

\* p up to and including its last "/"
DirectoryOf(p) ==
    LET slashes == {k \in DOMAIN p : p[k] = "/"}
    IN  IF slashes = {} THEN <<>>
        ELSE SubSeq(p, 1, CHOOSE k \in slashes : \A j \in slashes : j <= k)

\* C6: the file main writes is the report path with its extension replaced
\* by ".html": same directory, same base name.
C6_HtmlPathReplacesExtension ==
    /\ mpc = "done" => written # {}
    /\ \A f \in written :
          /\ f.path =
                SubSeq(report_name, 1,
                       Len(report_name) - Len(ExtensionOf(report_name)))
                    \o <<".", "h", "t", "m", "l">>
          /\ DirectoryOf(f.path) = DirectoryOf(report_name)

\* a report in a directory, with an extension, was rendered
C6_Witness ==
    /\ mpc = "done"
    /\ written # {}
    /\ DirectoryOf(report_name) # <<>>
    /\ ExtensionOf(report_name) = <<".", "r">>

PipelineOrder ==
    <<"collect_results", "collect_head", "create_message", "create_email",
      "write">>

IsPrefix(a, b) == Len(a) <= Len(b) /\ SubSeq(b, 1, Len(a)) = a

\* the failures of the input files that C8 lists, but for the template's
\* placeholder
InputFileFailure ==
    \/ ~files.report
    \/ ~files.head.exists
    \/ Len(files.head.lines) < 2
    \/ ~files.template.exists
    \/ ~files.to
    \/ ~files.cc

\* the template has no body placeholder
NoBodyPlaceholder ==
    /\ files.template.exists
    /\ \A k \in DOMAIN files.template.parts : files.template.parts[k] # "$body"

====
